---- MODULE Spec2Model ----
(***************************************************************************)
(* The audio capture component of src/app/components/AudioRecorder.tsx as  *)
(* a state machine.  One action is one event handler or one continuation   *)
(* of the async startRecording between two awaits; the browser (tracks,    *)
(* MediaRecorder, AudioContext, object URLs, the audio element) is the     *)
(* environment and chooses grants, refusals and event times.               *)
(*                                                                         *)
(* Every call of startRecording is an "attempt" a \in Att.  The objects    *)
(* an attempt acquires (its microphone stream, its display stream, its     *)
(* AudioContext, its MediaRecorder, the object URL its stop event makes)   *)
(* are the fields of att[a]; the component's refs hold attempt numbers     *)
(* (0 is null).  The fields abandoned, dispReq, errored, stopped and        *)
(* delivered record what happened to an attempt; no handler reads them.    *)
(*                                                                         *)
(* Spec runs this component.  SpecGain runs the earlier gain-slider         *)
(* revision of the component (src/unnamed/part_003), modelled further      *)
(* below with its own requests req[a]; SpecPlayback runs the playback of   *)
(* that revision (src/unnamed/part_004); SpecUpload runs the upload        *)
(* handler (src/unnamed/part_001).                                         *)
(*                                                                         *)
(* Left out: track.onmute and track.onunmute (they only set `error`), and  *)
(* the await of navigator.permissions.query, whose result is only logged.  *)
(* "new Blob" and URL.createObjectURL are taken not to throw.              *)
(***************************************************************************)
EXTENDS Integers, Sequences, FiniteSets

\* Bounds of the model.
MaxAttempts == 2
MaxChunks == 1

Att == 1..MaxAttempts
Modes == {"microphone", "system", "both"}
ChunkSizes == {0, 1000}
ErrNames == {"NotAllowedError", "NotReadableError"}

\* The messages the component stores in `error`.
NoError == "null"
MsgNoData == "No audio data was recorded"
MsgUnsupported == "Your browser does not support audio recording"
MsgRecorderError == "Recording error"
MsgRecorderCtor == "Failed to create audio recorder"
MsgSysDenied == "System audio permission denied"
MsgSysNotFound == "No audio source found"
MsgSysNotReadable == "Could not access system audio"
MsgSysNoAudio == "System audio capture failed"
MsgSysCatchDenied == "Permission denied"
MsgBothDenied == "Permission denied for combined recording"
MsgBothNoAudio == "No system audio detected"
\* The text of a platform exception thrown while the graph is built.
MsgGraph == "NotSupportedError"
MsgNoRecording == "No recording available to play"
MsgPlayFail == "Failed to play audio"
MsgPlaybackError == "Audio playback error"

VARIABLES
  mounted,            \* the component is mounted (its cleanup effect has not run)
  isBrowserSupported,
  isRecording, isPlaying, hasRecording, error, audioLevel, recordingMode,
  mediaRecorderRef, micStreamRef, systemStreamRef, audioContextRef,
  analyserRef, animationFrameRef,
  chunksRef,          \* the array chunksRef.current
  audioSrc,           \* audioRef.current.src: 0 is "", a is the URL made by a's stop event
  audioEl,            \* the audio element: "paused", "pending" (play() not settled), "playing"
  nAttempts,          \* calls of startRecording so far
  att                 \* the objects of each attempt

\* The state of the gain-slider revision (src/unnamed/part_003, lines 319 to
\* 826), a component of its own.  It is run by SpecGain; under Spec these
\* variables never change, and under SpecGain the variables above that the
\* revision does not declare never change.  mounted, isRecording, isPlaying,
\* mediaRecorderRef, audioContextRef and nAttempts are declared by both
\* components and are the state of the one that runs.
VARIABLES
  isMac,              \* /Mac/.test(navigator.platform)
  audioData,          \* 0 is null, a is the artifact made by the stop event of request a
  showPermissionModal, permissionError,
  gainValue,          \* in tenths: 15 is 1.5
  gainNodeRef,        \* 0 is null, a is the gain node request a created
  audioChunksRef,     \* the array audioChunksRef.current
  req                 \* the objects of each call of requestPermission

\* The state of the upload handler (src/unnamed/part_001), run by
\* SpecUpload, and of the playback of the gain-slider revision, run by
\* SpecPlayback.  The other specifications never change these variables.
VARIABLES
  now,                \* the server's clock, in ticks of 1/TicksPerMs millisecond
  files,              \* the files of public/uploads: records of name and content
  up,                 \* the POST requests
  audioBufferSourceRef, \* 0 is null, p is the source the call p of playRecording made
  nPlays,             \* calls of playRecording so far
  plays               \* the calls of playRecording and their sources

uploadVars == <<now, files, up>>
playVars == <<audioBufferSourceRef, nPlays, plays>>

revVars == <<isMac, audioData, showPermissionModal, permissionError, gainValue,
             gainNodeRef, audioChunksRef, req>>

reactVars == <<isRecording, isPlaying, hasRecording, error, audioLevel, recordingMode>>
refVars == <<mediaRecorderRef, micStreamRef, systemStreamRef, audioContextRef,
             analyserRef, animationFrameRef, chunksRef, audioSrc>>
recorderVars == <<mounted, isBrowserSupported, reactVars, refVars, audioEl, nAttempts,
                  att>>
vars == <<recorderVars, revVars, uploadVars, playVars>>

NoAttempt ==
  [pc |-> "none", mode |-> "microphone",
   mic |-> "none", sysAudio |-> "none", sysVideo |-> "none",
   ctx |-> "none", rec |-> "none",
   startEvt |-> FALSE, stopEvt |-> FALSE, stopped |-> FALSE,
   errored |-> FALSE, abandoned |-> FALSE, dispReq |-> FALSE,
   clIsRecording |-> FALSE,
   delivered |-> <<>>, url |-> "none", blob |-> <<>>]

\* useState(1.5), and the gain of the gain node on a Mac (1.8), in tenths.
DefaultGain == 15
MacGain == 18
\* Positions of the sensitivity slider (min 0.5, max 4, step 0.5), in tenths.
GainValues == {15, 40}

\* A call of requestPermission that was not made yet.  log lists the
\* platform stream requests the call issued, each with its outcome.
NoRequest ==
  [pc |-> "none", log |-> <<>>, stream |-> "none", ctx |-> "none", gain |-> 0,
   rec |-> "none", stopEvt |-> FALSE, stopped |-> FALSE,
   clGainValue |-> DefaultGain, clIsRecording |-> FALSE, adjusted |-> FALSE,
   delivered |-> <<>>, url |-> "none", blob |-> <<>>]

\* The useState and useRef initial values of the gain-slider revision.
RevisionInit ==
  /\ audioData = 0
  /\ showPermissionModal = FALSE
  /\ permissionError = NoError
  /\ gainValue = DefaultGain
  /\ gainNodeRef = 0
  /\ audioChunksRef = <<>>
  /\ req = [a \in Att |-> NoRequest]

\* Bounds of the upload handler's and the playback's runs.
MaxRequests == 3
MaxNow == 3
TicksPerMs == 2
MaxPlays == 3

Req == 1..MaxRequests
Play == 1..MaxPlays

\* A POST request that has not arrived.
NoUpload ==
  [pc |-> "none", part |-> "absent", threw |-> "none", stamp |-> -1,
   written |-> <<>>, responses |-> <<>>]

\* A call of playRecording that was not made.
NoPlay == [pc |-> "none", src |-> "none"]

\* No request was posted, nothing was played.
UploadInit ==
  /\ now = 0
  /\ files = {}
  /\ up = [r \in Req |-> NoUpload]

PlaybackInit ==
  /\ audioBufferSourceRef = 0
  /\ nPlays = 0
  /\ plays = [p \in Play |-> NoPlay]

Init ==
  /\ UploadInit
  /\ PlaybackInit
  /\ mounted = TRUE
  /\ isBrowserSupported \in BOOLEAN
  /\ isRecording = FALSE
  /\ isPlaying = FALSE
  /\ hasRecording = FALSE
  /\ error = NoError
  /\ audioLevel = 0
  /\ recordingMode = "microphone"
  /\ mediaRecorderRef = 0
  /\ micStreamRef = 0
  /\ systemStreamRef = 0
  /\ audioContextRef = 0
  /\ analyserRef = 0
  /\ animationFrameRef = 0
  /\ chunksRef = <<>>
  /\ audioSrc = 0
  /\ audioEl = "paused"
  /\ nAttempts = 0
  /\ att = [a \in Att |-> NoAttempt]
  /\ isMac = FALSE
  /\ RevisionInit


(***************************************************************************)
(* Helpers                                                                 *)
(***************************************************************************)

\* A state setter of React: it changes nothing once the component is unmounted.
Set(new, old) == IF mounted THEN new ELSE old

\* audioRef.current: the <audio> element is rendered in the supported branch
\* only, and React detaches the ref when the component is removed.
AudioRefCurrent == mounted /\ isBrowserSupported

Pending(r) == r.pc \in {"awaitMic", "awaitDisplay", "awaitResume"}

\* track.stop() on one track.  A track is "none" (not acquired), "live",
\* "ended" (by the platform), "stopped" (stop() was invoked on it once) or
\* "restopped" (stop() was invoked on it again).
StopTrack(t) ==
  CASE t = "live" -> "stopped"
    [] t = "stopped" -> "restopped"
    [] OTHER -> t

\* micStreamRef.current.getTracks().forEach(stop) and the same for
\* systemStreamRef.current, which holds the display audio track alone.
StopRefStreams(f, m, s) ==
  [a \in Att |->
     [f[a] EXCEPT !.mic = IF a = m THEN StopTrack(@) ELSE @,
                  !.sysAudio = IF a = s THEN StopTrack(@) ELSE @]]

\* A variant that stops the audio tracks alone (getAudioTracks for getTracks).
StopDisplayAudioTracks(f, a) == [f EXCEPT ![a].sysAudio = StopTrack(@)]

\* displayStream.getTracks().forEach(track => track.stop())
StopDisplayTracks(f, a) ==
  [f EXCEPT ![a].sysAudio = StopTrack(@), ![a].sysVideo = StopTrack(@)]

\* displayStream.getVideoTracks().forEach(track => track.stop())
StopVideoTracks(f, a) == [f EXCEPT ![a].sysVideo = StopTrack(@)]

\* audioContextRef.current.close()
CloseContext(f, c) ==
  [a \in Att |-> [f[a] EXCEPT !.ctx = IF a = c /\ @ = "open" THEN "closed" ELSE @]]

\* The messages getAudioStream throws for a rejected platform request.
SystemDisplayMessage(n) ==
  CASE n = "NotAllowedError" -> MsgSysDenied
    [] n = "NotFoundError" -> MsgSysNotFound
    [] n = "NotReadableError" -> MsgSysNotReadable
    [] OTHER -> n

\* The catch of case 'system': only an error still named NotAllowedError or
\* NotReadableError is replaced.
SystemCatchMessage(n) ==
  CASE n = "NotAllowedError" -> MsgSysCatchDenied
    [] n = "NotReadableError" -> MsgSysNotReadable
    [] OTHER -> n

BothCatchMessage(n) == IF n = "NotAllowedError" THEN MsgBothDenied ELSE n

\* The catch of startRecording, run by attempt a with message msg; f is the
\* attempts and m, s, c the refs as the try block left them.
startRecordingCatch(a, msg, f, m, s, c) ==
  /\ error' = Set(msg, error)
  /\ isRecording' = Set(FALSE, isRecording)
  /\ audioLevel' = Set(0, audioLevel)
  /\ att' = CloseContext(
              StopRefStreams([f EXCEPT ![a].pc = "failed"], m, s), c)

\* new MediaRecorder(stream), the handlers, recorder.start(100)
createRecorder(a, f) ==
  /\ att' = [f EXCEPT ![a].pc = "running", ![a].rec = "recording", ![a].startEvt = TRUE]
  /\ mediaRecorderRef' = a
  /\ UNCHANGED <<error, isRecording, audioLevel>>

\* What follows "const stream = await getAudioStream()" once the graph of
\* attempt a is built: the recorder is made, or its construction throws.
afterGetAudioStream(a, recOk, f, m, s, c) ==
  IF recOk
    THEN createRecorder(a, f)
    ELSE /\ startRecordingCatch(a, MsgRecorderCtor, f, m, s, c)
         /\ UNCHANGED mediaRecorderRef

(***************************************************************************)
(* startRecording and getAudioStream                                       *)
(***************************************************************************)

\* Click on "Start ... Recording": the button calls startRecording while
\* isRecording is false and is disabled while isPlaying.
startRecording ==
  /\ mounted /\ isBrowserSupported
  /\ ~isRecording /\ ~isPlaying
  /\ nAttempts < MaxAttempts
  /\ LET a == nAttempts + 1 IN
     /\ nAttempts' = a
     /\ chunksRef' = <<>>
     /\ IF ~isBrowserSupported
          THEN /\ startRecordingCatch(a, MsgUnsupported,
                     [att EXCEPT ![a].mode = recordingMode],
                     micStreamRef, systemStreamRef, audioContextRef)
          ELSE /\ error' = NoError
               /\ att' = [att EXCEPT
                    ![a].mode = recordingMode,
                    ![a].clIsRecording = isRecording,
                    ![a].pc = IF recordingMode = "system" THEN "awaitDisplay" ELSE "awaitMic",
                    ![a].dispReq = (recordingMode = "system")]
               /\ UNCHANGED <<isRecording, audioLevel>>
  /\ UNCHANGED <<revVars, uploadVars, playVars,
                 mounted, isBrowserSupported, isPlaying, hasRecording, recordingMode,
                 mediaRecorderRef, micStreamRef, systemStreamRef, audioContextRef,
                 analyserRef, animationFrameRef, audioSrc, audioEl>>

\* The mode buttons, disabled while isRecording.
setRecordingMode(m) ==
  /\ mounted /\ isBrowserSupported
  /\ ~isRecording
  /\ m # recordingMode
  /\ recordingMode' = m
  /\ UNCHANGED <<revVars, uploadVars, playVars,
                 mounted, isBrowserSupported, isRecording, isPlaying, hasRecording,
                 error, audioLevel, refVars, audioEl, nAttempts, att>>

\* getUserMedia resolves for attempt a.  In mode 'microphone' the graph is
\* built (graphOk: the AudioContext calls do not throw) and the recorder
\* made in the same continuation; in mode 'both' getDisplayMedia is called.
getUserMediaResolved(a, graphOk, recOk) ==
  /\ att[a].pc = "awaitMic"
  /\ micStreamRef' = a
  /\ LET f == [att EXCEPT ![a].mic = "live"] IN
     IF att[a].mode = "both"
       THEN /\ att' = [f EXCEPT ![a].pc = "awaitDisplay", ![a].dispReq = TRUE]
            /\ UNCHANGED <<error, isRecording, audioLevel, mediaRecorderRef,
                           analyserRef, audioContextRef>>
       ELSE IF graphOk
         THEN /\ analyserRef' = a
              /\ audioContextRef' = a
              /\ afterGetAudioStream(a, recOk, [f EXCEPT ![a].ctx = "open"],
                                     a, systemStreamRef, a)
         ELSE /\ startRecordingCatch(a, MsgGraph, f,
                                     a, systemStreamRef, audioContextRef)
              /\ UNCHANGED <<mediaRecorderRef, analyserRef, audioContextRef>>
  /\ UNCHANGED <<revVars, uploadVars, playVars,
                 mounted, isBrowserSupported, isPlaying, hasRecording, recordingMode,
                 systemStreamRef, animationFrameRef, chunksRef, audioSrc, audioEl,
                 nAttempts>>

\* getUserMedia rejects with an error named n.
getUserMediaRejected(a, n) ==
  /\ att[a].pc = "awaitMic"
  /\ startRecordingCatch(a,
        IF att[a].mode = "both" THEN BothCatchMessage(n) ELSE n,
        att, micStreamRef, systemStreamRef, audioContextRef)
  /\ UNCHANGED <<revVars, uploadVars, playVars,
                 mounted, isBrowserSupported, isPlaying, hasRecording, recordingMode,
                 refVars, audioEl, nAttempts>>

\* The graph of case 'system' from "new MediaStream([audioTrack])" on, once
\* the AudioContext runs, then the recorder.
systemGraphBuilt(a, recOk, f) ==
  /\ analyserRef' = a
  /\ audioContextRef' = a
  /\ systemStreamRef' = a
  /\ afterGetAudioStream(a, recOk, StopVideoTracks(f, a), micStreamRef, a, a)

\* getDisplayMedia resolves for attempt a with a video track and, if
\* hasAudio, one audio track.  graph: the AudioContext is built and runs
\* ("ok"), is built suspended ("suspended", awaited in case 'system' only)
\* or a call that builds it throws ("throws").
getDisplayMediaResolved(a, hasAudio, graph, recOk) ==
  /\ att[a].pc = "awaitDisplay"
  /\ att[a].mode = "both" => graph # "suspended"
  /\ LET f == [att EXCEPT ![a].sysVideo = "live",
                          ![a].sysAudio = IF hasAudio THEN "live" ELSE "none"]
     IN
     IF ~hasAudio
       THEN /\ startRecordingCatch(a,
                 IF att[a].mode = "both" THEN MsgBothNoAudio ELSE MsgSysNoAudio,
                 StopDisplayTracks(f, a),
                 micStreamRef, systemStreamRef, audioContextRef)
            /\ UNCHANGED <<mediaRecorderRef, analyserRef, audioContextRef, systemStreamRef>>
       ELSE CASE graph = "throws" ->
                 /\ startRecordingCatch(a, MsgGraph, f,
                       micStreamRef, systemStreamRef, audioContextRef)
                 /\ UNCHANGED <<mediaRecorderRef, analyserRef, audioContextRef,
                                systemStreamRef>>
              [] graph = "suspended" ->
                 /\ att' = [f EXCEPT ![a].ctx = "open", ![a].pc = "awaitResume"]
                 /\ UNCHANGED <<error, isRecording, audioLevel, mediaRecorderRef,
                                analyserRef, audioContextRef, systemStreamRef>>
              [] OTHER ->
                 systemGraphBuilt(a, recOk, [f EXCEPT ![a].ctx = "open"])
  /\ UNCHANGED <<revVars, uploadVars, playVars,
                 mounted, isBrowserSupported, isPlaying, hasRecording, recordingMode,
                 micStreamRef, animationFrameRef, chunksRef, audioSrc, audioEl,
                 nAttempts>>

\* getDisplayMedia rejects with an error named n.
getDisplayMediaRejected(a, n) ==
  /\ att[a].pc = "awaitDisplay"
  /\ startRecordingCatch(a,
        IF att[a].mode = "both" THEN BothCatchMessage(n) ELSE SystemDisplayMessage(n),
        att, micStreamRef, systemStreamRef, audioContextRef)
  /\ UNCHANGED <<revVars, uploadVars, playVars,
                 mounted, isBrowserSupported, isPlaying, hasRecording, recordingMode,
                 refVars, audioEl, nAttempts>>

\* "await audioContext.resume()" of case 'system' settles: it resolves, or
\* rejects with an error named n.
resumeSettled(a, ok, n, recOk) ==
  /\ att[a].pc = "awaitResume"
  /\ IF ok
       THEN systemGraphBuilt(a, recOk, att)
       ELSE /\ startRecordingCatch(a, SystemCatchMessage(n), att,
                  micStreamRef, systemStreamRef, audioContextRef)
            /\ UNCHANGED <<mediaRecorderRef, analyserRef, audioContextRef, systemStreamRef>>
  /\ UNCHANGED <<revVars, uploadVars, playVars,
                 mounted, isBrowserSupported, isPlaying, hasRecording, recordingMode,
                 micStreamRef, animationFrameRef, chunksRef, audioSrc, audioEl,
                 nAttempts>>

(***************************************************************************)
(* The level meter                                                         *)
(***************************************************************************)

Buffers == {<<0, 0>>, <<0, 128>>, <<255, 255>>}

ISqrt(n) == CHOOSE r \in 0..255 : r * r <= n /\ n < (r + 1) * (r + 1)

\* The buffers getByteFrequencyData can fill: every bin is a byte.
AnalyserBuffers == [1..2 -> 0..255]

\* The level without the clamp of Math.min.
LevelUnclamped(buf) ==
  (ISqrt((buf[1] * buf[1] + buf[2] * buf[2]) \div 2) * 100) \div 128

\* The level of the earlier revision with a mode selector
\* (src/unnamed/part_002): (average / 255) * 100, rounded down.
MeanLevel(buf) == ((buf[1] + buf[2]) * 100) \div (2 * 255)

\* Math.min(100, (rms / 128) * 100), rounded down.
Level(buf) ==
  LET rms == ISqrt((buf[1] * buf[1] + buf[2] * buf[2]) \div 2)
      lvl == (rms * 100) \div 128
  IN IF lvl > 100 THEN 100 ELSE lvl

\* updateAudioLevel as the closure of one render: cl is the isRecording
\* that render saw.
updateAudioLevel(cl) ==
  IF analyserRef = 0 \/ ~cl
    THEN UNCHANGED <<audioLevel, animationFrameRef>>
    ELSE /\ \E buf \in Buffers : audioLevel' = Set(Level(buf), audioLevel)
         /\ animationFrameRef' = 1

(***************************************************************************)
(* The recorder's events                                                   *)
(***************************************************************************)

\* recorder.onstart
recorderOnStart(a) ==
  /\ att[a].startEvt
  /\ att' = [att EXCEPT ![a].startEvt = FALSE]
  /\ isRecording' = Set(TRUE, isRecording)
  /\ error' = Set(NoError, error)
  /\ updateAudioLevel(att[a].clIsRecording)
  /\ UNCHANGED <<revVars, uploadVars, playVars,
                 mounted, isBrowserSupported, isPlaying, hasRecording, recordingMode,
                 mediaRecorderRef, micStreamRef, systemStreamRef, audioContextRef,
                 analyserRef, chunksRef, audioSrc, audioEl, nAttempts>>

\* chunksRef.current after recorder.ondataavailable of recorder a with a
\* chunk of `size` bytes.
PushChunk(chunks, a, size) ==
  IF size > 0 THEN Append(chunks, [rec |-> a, size |-> size]) ELSE chunks

\* The chunks recorder a has delivered, after one more of `size` bytes.
Delivered(d, size) == IF size > 0 THEN Append(d, size) ELSE d

\* recorder.ondataavailable, on a timeslice of the running recorder.
recorderOnDataAvailable(a, size) ==
  /\ att[a].rec = "recording"
  /\ ~att[a].startEvt
  /\ Len(att[a].delivered) < MaxChunks
  /\ chunksRef' = PushChunk(chunksRef, a, size)
  /\ att' = [att EXCEPT ![a].delivered = Delivered(@, size)]
  /\ UNCHANGED <<revVars, uploadVars, playVars,
                 mounted, isBrowserSupported, reactVars, mediaRecorderRef, micStreamRef,
                 systemStreamRef, audioContextRef, analyserRef, animationFrameRef,
                 audioSrc, audioEl, nAttempts>>

\* The attempts after URL.revokeObjectURL(audioRef.current.src).
RevokeSrc(f, src) ==
  [a \in Att |-> [f[a] EXCEPT !.url = IF a = src /\ @ = "live" THEN "revoked" ELSE @]]

\* The stop task of recorder a: the last dataavailable, with the data
\* gathered since the previous one, then recorder.onstop.  The recorder's
\* tasks run in the order they were queued: start comes first.
recorderOnStop(a, size) ==
  /\ att[a].stopEvt
  /\ ~att[a].startEvt
  /\ LET chunks == PushChunk(chunksRef, a, size)
         f == [att EXCEPT ![a].stopEvt = FALSE, ![a].stopped = TRUE,
                          ![a].delivered = Delivered(@, size)]
     IN
     /\ chunksRef' = chunks
     /\ IF Len(chunks) = 0
          THEN /\ error' = Set(MsgNoData, error)
               /\ att' = f
               /\ UNCHANGED <<isRecording, isPlaying, hasRecording, audioLevel,
                              audioSrc, audioEl>>
          ELSE LET g == [f EXCEPT ![a].url = "live", ![a].blob = chunks] IN
               /\ IF AudioRefCurrent
                    THEN /\ audioSrc' = a
                         /\ hasRecording' = TRUE
                         /\ audioEl' = "paused"
                         /\ att' = StopRefStreams(RevokeSrc(g, audioSrc),
                                                  micStreamRef, systemStreamRef)
                         \* a play() still pending is rejected by the new src
                         /\ IF audioEl = "pending"
                              THEN /\ error' = MsgPlayFail
                                   /\ isPlaying' = FALSE
                              ELSE UNCHANGED <<error, isPlaying>>
                    ELSE /\ att' = StopRefStreams(g, micStreamRef, systemStreamRef)
                         /\ UNCHANGED <<audioSrc, hasRecording, audioEl, error, isPlaying>>
               /\ audioLevel' = Set(0, audioLevel)
               /\ isRecording' = Set(FALSE, isRecording)
  /\ UNCHANGED <<revVars, uploadVars, playVars,
                 mounted, isBrowserSupported, recordingMode, mediaRecorderRef,
                 micStreamRef, systemStreamRef, audioContextRef, analyserRef,
                 animationFrameRef, nAttempts>>

\* The recorder cannot go on: it becomes inactive, recorder.onerror runs and
\* its stop task is queued.
recorderOnError(a) ==
  /\ att[a].rec = "recording"
  /\ ~att[a].startEvt
  /\ error' = Set(MsgRecorderError, error)
  /\ isRecording' = Set(FALSE, isRecording)
  /\ audioLevel' = Set(0, audioLevel)
  /\ att' = StopRefStreams(
       [att EXCEPT ![a].rec = "inactive", ![a].stopEvt = TRUE, ![a].errored = TRUE],
       micStreamRef, systemStreamRef)
  /\ UNCHANGED <<revVars, uploadVars, playVars,
                 mounted, isBrowserSupported, isPlaying, hasRecording, recordingMode,
                 refVars, audioEl, nAttempts>>

(***************************************************************************)
(* stopRecording                                                           *)
(***************************************************************************)

\* mediaRecorderRef.current && mediaRecorderRef.current.state !== 'inactive'
RecorderActive(f) == mediaRecorderRef # 0 /\ f[mediaRecorderRef].rec = "recording"

\* The attempts after stopRecording(): the current recorder, if active, is
\* stopped and its stop task queued.  (abandoned records, for the attempts
\* still waiting for their stream, that stop was invoked meanwhile.)
StopRecorder(f) ==
  [a \in Att |->
     [f[a] EXCEPT
        !.abandoned = @ \/ Pending(f[a]),
        !.rec = IF a = mediaRecorderRef /\ @ = "recording" THEN "inactive" ELSE @,
        !.stopEvt = @ \/ (a = mediaRecorderRef /\ f[a].rec = "recording")]]

\* Click on "Stop Recording".
stopRecording ==
  /\ mounted /\ isBrowserSupported
  /\ isRecording /\ ~isPlaying
  /\ att' = StopRecorder(att)
  /\ isRecording' = IF RecorderActive(att) THEN FALSE ELSE isRecording
  /\ UNCHANGED <<revVars, uploadVars, playVars,
                 mounted, isBrowserSupported, isPlaying, hasRecording, error,
                 audioLevel, recordingMode, refVars, audioEl, nAttempts>>

\* The display audio track of attempt a ends (the user stops sharing); in
\* case 'system' track.onended calls stopRecording.
trackOnEnded(a) ==
  /\ att[a].sysAudio = "live"
  /\ LET f == [att EXCEPT ![a].sysAudio = "ended",
                          ![a].sysVideo = IF @ = "live" THEN "ended" ELSE @]
     IN
     IF att[a].mode = "system"
       THEN /\ att' = StopRecorder(f)
            /\ isRecording' = IF RecorderActive(att) THEN Set(FALSE, isRecording)
                              ELSE isRecording
       ELSE /\ att' = f
            /\ UNCHANGED isRecording
  /\ UNCHANGED <<revVars, uploadVars, playVars,
                 mounted, isBrowserSupported, isPlaying, hasRecording, error,
                 audioLevel, recordingMode, refVars, audioEl, nAttempts>>

\* The cleanup of the mount effect.  The <audio> element is gone by then,
\* so "audioRef.current?.src" is undefined and nothing is revoked.
unmount ==
  /\ mounted
  /\ mounted' = FALSE
  /\ att' = CloseContext(
              StopRefStreams(StopRecorder(att), micStreamRef, systemStreamRef),
              audioContextRef)
  /\ audioEl' = "paused"
  /\ UNCHANGED <<revVars, uploadVars, playVars,
                 isBrowserSupported, reactVars, refVars, nAttempts>>

(***************************************************************************)
(* Playback                                                                *)
(***************************************************************************)

\* Click on "Play Recording": rendered when hasRecording && !isRecording.
playAudio ==
  /\ mounted /\ isBrowserSupported
  /\ hasRecording /\ ~isRecording /\ ~isPlaying
  /\ IF audioSrc = 0
       THEN /\ error' = MsgNoRecording
            /\ UNCHANGED audioEl
       ELSE /\ audioEl' = IF audioEl = "playing" THEN "playing" ELSE "pending"
            /\ UNCHANGED error
  /\ UNCHANGED <<revVars, uploadVars, playVars,
                 mounted, isBrowserSupported, isRecording, isPlaying, hasRecording,
                 audioLevel, recordingMode, refVars, nAttempts, att>>

\* audioRef.current.play() resolves.
playResolved ==
  /\ mounted
  /\ audioEl = "pending"
  /\ audioEl' = "playing"
  /\ isPlaying' = TRUE
  /\ error' = NoError
  /\ UNCHANGED <<revVars, uploadVars, playVars,
                 mounted, isBrowserSupported, isRecording, hasRecording,
                 audioLevel, recordingMode, refVars, nAttempts, att>>

\* audioRef.current.play() rejects.
playRejected ==
  /\ mounted
  /\ audioEl = "pending"
  /\ audioEl' = "paused"
  /\ isPlaying' = FALSE
  /\ error' = MsgPlayFail
  /\ UNCHANGED <<revVars, uploadVars, playVars,
                 mounted, isBrowserSupported, isRecording, hasRecording,
                 audioLevel, recordingMode, refVars, nAttempts, att>>

\* Click on "Stop Playing".
stopAudio ==
  /\ mounted /\ isBrowserSupported
  /\ hasRecording /\ ~isRecording /\ isPlaying
  /\ audioEl' = "paused"
  /\ isPlaying' = FALSE
  /\ UNCHANGED <<revVars, uploadVars, playVars,
                 mounted, isBrowserSupported, isRecording, hasRecording, error,
                 audioLevel, recordingMode, refVars, nAttempts, att>>

\* onEnded of the <audio> element.
audioOnEnded ==
  /\ mounted
  /\ audioEl = "playing"
  /\ audioEl' = "paused"
  /\ isPlaying' = FALSE
  /\ UNCHANGED <<revVars, uploadVars, playVars,
                 mounted, isBrowserSupported, isRecording, hasRecording, error,
                 audioLevel, recordingMode, refVars, nAttempts, att>>

\* onError of the <audio> element, while it plays.
audioOnError ==
  /\ mounted
  /\ audioEl = "playing"
  /\ audioEl' = "paused"
  /\ isPlaying' = FALSE
  /\ error' = MsgPlaybackError
  /\ UNCHANGED <<revVars, uploadVars, playVars,
                 mounted, isBrowserSupported, isRecording, hasRecording,
                 audioLevel, recordingMode, refVars, nAttempts, att>>

GraphOutcomes == {"ok", "suspended", "throws"}

Next ==
  \/ startRecording
  \/ stopRecording
  \/ \E m \in Modes : setRecordingMode(m)
  \/ \E a \in Att, graphOk \in BOOLEAN, recOk \in BOOLEAN :
       getUserMediaResolved(a, graphOk, recOk)
  \/ \E a \in Att, n \in ErrNames : getUserMediaRejected(a, n)
  \/ \E a \in Att, hasAudio \in BOOLEAN, graph \in GraphOutcomes, recOk \in BOOLEAN :
       getDisplayMediaResolved(a, hasAudio, graph, recOk)
  \/ \E a \in Att, n \in ErrNames : getDisplayMediaRejected(a, n)
  \/ \E a \in Att, ok \in BOOLEAN, n \in ErrNames, recOk \in BOOLEAN :
       resumeSettled(a, ok, n, recOk)
  \/ \E a \in Att : recorderOnStart(a)
  \/ \E a \in Att, size \in ChunkSizes : recorderOnDataAvailable(a, size)
  \/ \E a \in Att, size \in ChunkSizes : recorderOnStop(a, size)
  \/ \E a \in Att : recorderOnError(a)
  \/ \E a \in Att : trackOnEnded(a)
  \/ unmount
  \/ playAudio
  \/ playResolved
  \/ playRejected
  \/ stopAudio
  \/ audioOnEnded
  \/ audioOnError

Spec == Init /\ [][Next]_vars

(***************************************************************************)
(* The gain-slider revision: src/unnamed/part_003, lines 319 to 826.       *)
(* Every call of requestPermission is a request a \in Att with the objects *)
(* req[a].  Left out: the posthog calls, the compressor node, the choice   *)
(* of the recording format, the test for a missing AudioContext class,    *)
(* the tracks of the probe stream, which are stopped as soon as it is      *)
(* granted, and playback (playRecording, stopPlayback), which SpecPlayback *)
(* runs on its own: under SpecGain isPlaying stays false.                  *)
(***************************************************************************)

\* The variables of the current component the revision does not declare.
componentVars == <<isBrowserSupported, hasRecording, error, audioLevel, recordingMode,
                   micStreamRef, systemStreamRef, analyserRef, animationFrameRef,
                   chunksRef, audioSrc, audioEl, att>>

\* The messages the revision stores in permissionError.
MsgMacPrivacy == "Please open System Preferences > Security & Privacy > Privacy > Microphone"
MsgPermissionDenied == "Permission to record audio was denied"
MsgMacBrowser == "Please try using Safari 14+ or the latest version of Chrome on your Mac"
MsgWinBrowser == "Please use Chrome or Edge on Windows"
MsgDevice == "Unable to access your microphone"
MsgRecordingError == "Recording error occurred. Please try again."

\* The catch of requestPermission: the message for an error named n.
PermissionMessage(n) ==
  CASE n \in {"NotAllowedError", "PermissionDeniedError"} ->
         IF isMac THEN MsgMacPrivacy ELSE MsgPermissionDenied
    [] n = "NotSupportedError" -> IF isMac THEN MsgMacBrowser ELSE MsgWinBrowser
    [] n \in {"NotReadableError", "NotFoundError"} -> MsgDevice
    [] OTHER -> n

\* navigator.mediaDevices.getUserMedia is called with the constraints `kind`.
Issue(r, kind) == [r EXCEPT !.log = Append(@, [kind |-> kind, out |-> "pending"])]

\* The request issued last settles with outcome `out`.
Settle(r, out) == [r EXCEPT !.log = [@ EXCEPT ![Len(@)].out = out]]

\* The catch of requestPermission, run by request a with an error named n.
requestPermissionCatch(a, n, f) ==
  /\ permissionError' = Set(PermissionMessage(n), permissionError)
  /\ showPermissionModal' = Set(TRUE, showPermissionModal)
  /\ req' = [f EXCEPT ![a].pc = "failed"]

\* A slider that is never disabled.
SliderAlwaysEnabled == FALSE

\* The slider that runs adjustGain: disabled={isRecording}.
SliderDisabled == isRecording

\* Click on "Start Recording", shown while isRecording is false.
revStartRecording ==
  /\ mounted /\ ~isRecording
  /\ ~showPermissionModal
  /\ showPermissionModal' = TRUE
  /\ UNCHANGED <<componentVars, uploadVars, playVars,
                 mounted, isRecording, isPlaying, mediaRecorderRef,
                 audioContextRef, nAttempts, isMac, audioData, permissionError,
                 gainValue, gainNodeRef, audioChunksRef, req>>

\* Click on "Cancel" or "Close" of the modal.
closePermissionModal ==
  /\ mounted /\ showPermissionModal
  /\ showPermissionModal' = FALSE
  /\ UNCHANGED <<componentVars, uploadVars, playVars,
                 mounted, isRecording, isPlaying, mediaRecorderRef,
                 audioContextRef, nAttempts, isMac, audioData, permissionError,
                 gainValue, gainNodeRef, audioChunksRef, req>>

\* Click on "Continue" or "Try Again" of the modal: requestPermission up to
\* its first await, the probe getUserMedia({ audio: true }).  The call keeps
\* the gainValue and the isRecording of the render it was made in.
requestPermission ==
  /\ mounted /\ showPermissionModal
  /\ nAttempts < MaxAttempts
  /\ LET a == nAttempts + 1 IN
     /\ nAttempts' = a
     /\ req' = [req EXCEPT ![a] =
                  Issue([@ EXCEPT !.pc = "awaitProbe",
                                  !.clGainValue = gainValue,
                                  !.clIsRecording = isRecording], "probe")]
  /\ permissionError' = NoError
  /\ showPermissionModal' = FALSE
  /\ UNCHANGED <<componentVars, uploadVars, playVars,
                 mounted, isRecording, isPlaying, mediaRecorderRef,
                 audioContextRef, isMac, audioData, gainValue, gainNodeRef,
                 audioChunksRef>>

\* The probe is granted: the request with the Mac constraints follows on a
\* Mac, the request with the default constraints elsewhere.
probeResolved(a) ==
  /\ req[a].pc = "awaitProbe"
  /\ req' = [req EXCEPT ![a] =
               Issue([Settle(@, "granted") EXCEPT
                        !.pc = IF isMac THEN "awaitMac" ELSE "awaitDefault"],
                     IF isMac THEN "mac" ELSE "default")]
  /\ UNCHANGED <<componentVars, uploadVars, playVars,
                 mounted, isRecording, isPlaying, mediaRecorderRef,
                 audioContextRef, nAttempts, isMac, audioData, showPermissionModal,
                 permissionError, gainValue, gainNodeRef, audioChunksRef>>

\* The probe is rejected with an error named n: it is thrown again.
probeRejected(a, n) ==
  /\ req[a].pc = "awaitProbe"
  /\ requestPermissionCatch(a, n, [req EXCEPT ![a] = Settle(@, "rejected")])
  /\ UNCHANGED <<componentVars, uploadVars, playVars,
                 mounted, isRecording, isPlaying, mediaRecorderRef,
                 audioContextRef, nAttempts, isMac, audioData, gainValue, gainNodeRef,
                 audioChunksRef>>

\* The graph from createMediaStreamSource on, in the context of
\* audioContextRef, then the recorder: new MediaRecorder (recOk: it does not
\* throw), audioChunksRef.current = [], start, setIsRecording(true).
buildGraph(a, recOk, f) ==
  /\ gainNodeRef' = a
  /\ LET g == [f EXCEPT ![a].gain = IF isMac THEN MacGain ELSE f[a].clGainValue] IN
     IF recOk
       THEN /\ req' = [g EXCEPT ![a].pc = "running", ![a].rec = "recording"]
            /\ mediaRecorderRef' = a
            /\ audioChunksRef' = <<>>
            /\ isRecording' = Set(TRUE, isRecording)
            /\ UNCHANGED <<permissionError, showPermissionModal>>
       ELSE /\ requestPermissionCatch(a, "NotSupportedError", g)
            /\ UNCHANGED <<mediaRecorderRef, audioChunksRef, isRecording>>

\* audioContextRef.current = new AudioContext(...): it throws, it is made
\* suspended (resume() is awaited) or it runs.
newContext(a, graph, recOk, f) ==
  CASE graph = "throws" ->
         /\ requestPermissionCatch(a, "NotSupportedError", f)
         /\ UNCHANGED <<audioContextRef, gainNodeRef, mediaRecorderRef, audioChunksRef,
                        isRecording>>
    [] graph = "suspended" ->
         /\ req' = [f EXCEPT ![a].ctx = "open", ![a].pc = "awaitResume"]
         /\ audioContextRef' = a
         /\ UNCHANGED <<gainNodeRef, mediaRecorderRef, audioChunksRef, isRecording,
                        permissionError, showPermissionModal>>
    [] OTHER ->
         /\ audioContextRef' = a
         /\ buildGraph(a, recOk, [f EXCEPT ![a].ctx = "open"])

\* What follows the stream: a context still held by audioContextRef is
\* closed, and its close() awaited, before the new one is made.
streamAcquired(a, graph, recOk, f) ==
  IF audioContextRef # 0
    THEN /\ req' = CloseContext([f EXCEPT ![a].pc = "awaitClose"], audioContextRef)
         /\ UNCHANGED <<audioContextRef, gainNodeRef, mediaRecorderRef, audioChunksRef,
                        isRecording, permissionError, showPermissionModal>>
    ELSE newContext(a, graph, recOk, f)

\* getUserMedia(macConstraints) resolves.
macResolved(a, graph, recOk) ==
  /\ req[a].pc = "awaitMac"
  /\ streamAcquired(a, graph, recOk,
       [req EXCEPT ![a] = [Settle(@, "granted") EXCEPT !.stream = "live"]])
  /\ UNCHANGED <<componentVars, uploadVars, playVars,
                 mounted, isPlaying, nAttempts, isMac, audioData,
                 gainValue>>

\* A variant that asks again with the Mac constraints.
macRejectedAsksAgain(a) ==
  /\ req[a].pc = "awaitMac"
  /\ req' = [req EXCEPT ![a] = Issue(Settle(@, "rejected"), "mac")]
  /\ UNCHANGED <<componentVars, uploadVars, playVars,
                 mounted, isRecording, isPlaying, mediaRecorderRef,
                 audioContextRef, nAttempts, isMac, audioData, showPermissionModal,
                 permissionError, gainValue, gainNodeRef, audioChunksRef>>

\* getUserMedia(macConstraints) rejects: the catch around it calls
\* getUserMedia(defaultConstraints).
macRejected(a) ==
  /\ req[a].pc = "awaitMac"
  /\ req' = [req EXCEPT ![a] =
               Issue([Settle(@, "rejected") EXCEPT !.pc = "awaitDefault"], "default")]
  /\ UNCHANGED <<componentVars, uploadVars, playVars,
                 mounted, isRecording, isPlaying, mediaRecorderRef,
                 audioContextRef, nAttempts, isMac, audioData, showPermissionModal,
                 permissionError, gainValue, gainNodeRef, audioChunksRef>>

\* getUserMedia(defaultConstraints) resolves.
defaultResolved(a, graph, recOk) ==
  /\ req[a].pc = "awaitDefault"
  /\ streamAcquired(a, graph, recOk,
       [req EXCEPT ![a] = [Settle(@, "granted") EXCEPT !.stream = "live"]])
  /\ UNCHANGED <<componentVars, uploadVars, playVars,
                 mounted, isPlaying, nAttempts, isMac, audioData,
                 gainValue>>

\* getUserMedia(defaultConstraints) rejects with an error named n.
defaultRejected(a, n) ==
  /\ req[a].pc = "awaitDefault"
  /\ requestPermissionCatch(a, n, [req EXCEPT ![a] = Settle(@, "rejected")])
  /\ UNCHANGED <<componentVars, uploadVars, playVars,
                 mounted, isRecording, isPlaying, mediaRecorderRef,
                 audioContextRef, nAttempts, isMac, audioData, gainValue, gainNodeRef,
                 audioChunksRef>>

\* "await audioContextRef.current.close()" settles; a rejection is caught
\* and logged.
contextClosed(a, graph, recOk) ==
  /\ req[a].pc = "awaitClose"
  /\ newContext(a, graph, recOk, req)
  /\ UNCHANGED <<componentVars, uploadVars, playVars,
                 mounted, isPlaying, nAttempts, isMac, audioData,
                 gainValue>>

\* "await audioContextRef.current.resume()" settles.  The graph is built in
\* whatever context audioContextRef holds by then; null is a TypeError.
contextResumed(a, ok, n, recOk) ==
  /\ req[a].pc = "awaitResume"
  /\ IF ok /\ audioContextRef # 0
       THEN buildGraph(a, recOk, req)
       ELSE /\ requestPermissionCatch(a, IF ok THEN "TypeError" ELSE n, req)
            /\ UNCHANGED <<gainNodeRef, mediaRecorderRef, audioChunksRef, isRecording>>
  /\ UNCHANGED <<componentVars, uploadVars, playVars,
                 mounted, isPlaying, audioContextRef, nAttempts, isMac,
                 audioData, gainValue>>

\* mediaRecorderRef.current.stop() on a recorder that records.
StopCurrentRecorder(f) ==
  [f EXCEPT ![mediaRecorderRef].rec = "inactive", ![mediaRecorderRef].stopEvt = TRUE]

\* mediaRecorder.ondataavailable, on a timeslice of the running recorder.
revRecorderOnDataAvailable(a, size) ==
  /\ req[a].rec = "recording"
  /\ Len(req[a].delivered) < MaxChunks
  /\ audioChunksRef' = PushChunk(audioChunksRef, a, size)
  /\ req' = [req EXCEPT ![a].delivered = Delivered(@, size)]
  /\ UNCHANGED <<componentVars, uploadVars, playVars,
                 mounted, isRecording, isPlaying, mediaRecorderRef,
                 audioContextRef, nAttempts, isMac, audioData, showPermissionModal,
                 permissionError, gainValue, gainNodeRef>>

\* The recorder of request a cannot go on: it becomes inactive,
\* mediaRecorder.onerror runs and its stop task is queued.  The handler calls
\* the stopRecording of the render requestPermission was called in; stop() on
\* an inactive recorder throws in some browsers (throws) and the rest of the
\* handler is then skipped.
revRecorderOnError(a, throws) ==
  /\ req[a].rec = "recording"
  /\ LET f == [req EXCEPT ![a].rec = "inactive", ![a].stopEvt = TRUE]
         stops == mediaRecorderRef # 0 /\ req[a].clIsRecording
         active == stops /\ f[mediaRecorderRef].rec = "recording"
     IN
     IF stops /\ ~active /\ throws
       THEN /\ req' = f
            /\ UNCHANGED <<isRecording, permissionError, showPermissionModal>>
       ELSE /\ req' = IF active THEN StopCurrentRecorder(f) ELSE f
            /\ isRecording' = IF stops THEN Set(FALSE, isRecording) ELSE isRecording
            /\ permissionError' = Set(MsgRecordingError, permissionError)
            /\ showPermissionModal' = Set(TRUE, showPermissionModal)
  /\ UNCHANGED <<componentVars, uploadVars, playVars,
                 mounted, isPlaying, mediaRecorderRef, audioContextRef,
                 nAttempts, isMac, audioData, gainValue, gainNodeRef, audioChunksRef>>

\* The stop task of recorder a: the last dataavailable, then
\* mediaRecorder.onstop, then the cleanup of the [audioData] effect of the
\* previous render, which revokes the URL of the artifact it replaces.
revRecorderOnStop(a, size) ==
  /\ req[a].stopEvt
  /\ LET chunks == PushChunk(audioChunksRef, a, size)
         f == [req EXCEPT ![a].stopEvt = FALSE, ![a].stopped = TRUE,
                          ![a].delivered = Delivered(@, size),
                          ![a].url = "live", ![a].blob = chunks,
                          ![a].stream = StopTrack(@)]
     IN
     /\ audioChunksRef' = chunks
     /\ audioData' = Set(a, audioData)
     /\ req' = CloseContext(IF mounted THEN RevokeSrc(f, audioData) ELSE f,
                            audioContextRef)
     /\ audioContextRef' = 0
  /\ UNCHANGED <<componentVars, uploadVars, playVars,
                 mounted, isRecording, isPlaying, mediaRecorderRef,
                 nAttempts, isMac, showPermissionModal, permissionError, gainValue,
                 gainNodeRef>>

\* Click on "Stop Recording", shown while isRecording.
revStopRecording(throws) ==
  /\ mounted /\ isRecording
  /\ mediaRecorderRef # 0
  /\ IF req[mediaRecorderRef].rec = "recording"
       THEN /\ req' = StopCurrentRecorder(req)
            /\ isRecording' = FALSE
       ELSE /\ req' = req
            /\ isRecording' = IF throws THEN isRecording ELSE FALSE
  /\ UNCHANGED <<componentVars, uploadVars, playVars,
                 mounted, isPlaying, mediaRecorderRef, audioContextRef,
                 nAttempts, isMac, audioData, showPermissionModal, permissionError,
                 gainValue, gainNodeRef, audioChunksRef>>

\* onChange of the slider with the value v.  (adjusted records, for the
\* recorders made and not yet finalized, that the gain was changed
\* meanwhile.)
adjustGain(v) ==
  /\ mounted /\ ~SliderDisabled
  /\ v # gainValue
  /\ gainValue' = v
  /\ req' = [a \in Att |->
               [req[a] EXCEPT
                  !.gain = IF a = gainNodeRef THEN v ELSE @,
                  !.adjusted = @ \/ (req[a].rec # "none" /\ ~req[a].stopped)]]
  /\ UNCHANGED <<componentVars, uploadVars, playVars,
                 mounted, isRecording, isPlaying, mediaRecorderRef,
                 audioContextRef, nAttempts, isMac, audioData, showPermissionModal,
                 permissionError, gainNodeRef, audioChunksRef>>

\* The cleanup of the [audioData] effect when the component is removed.
revUnmount ==
  /\ mounted
  /\ mounted' = FALSE
  /\ req' = CloseContext(RevokeSrc(req, audioData), audioContextRef)
  /\ UNCHANGED <<componentVars, uploadVars, playVars,
                 isRecording, isPlaying, mediaRecorderRef,
                 audioContextRef, nAttempts, isMac, audioData, showPermissionModal,
                 permissionError, gainValue, gainNodeRef, audioChunksRef>>

InitGain ==
  /\ UploadInit
  /\ PlaybackInit
  /\ mounted = TRUE
  /\ isBrowserSupported = TRUE
  /\ isRecording = FALSE
  /\ isPlaying = FALSE
  /\ hasRecording = FALSE
  /\ error = NoError
  /\ audioLevel = 0
  /\ recordingMode = "microphone"
  /\ mediaRecorderRef = 0
  /\ micStreamRef = 0
  /\ systemStreamRef = 0
  /\ audioContextRef = 0
  /\ analyserRef = 0
  /\ animationFrameRef = 0
  /\ chunksRef = <<>>
  /\ audioSrc = 0
  /\ audioEl = "paused"
  /\ nAttempts = 0
  /\ att = [a \in Att |-> NoAttempt]
  /\ isMac \in BOOLEAN
  /\ RevisionInit

NextGain ==
  \/ revStartRecording
  \/ closePermissionModal
  \/ requestPermission
  \/ \E a \in Att : probeResolved(a)
  \/ \E a \in Att, n \in ErrNames : probeRejected(a, n)
  \/ \E a \in Att, graph \in GraphOutcomes, recOk \in BOOLEAN : macResolved(a, graph, recOk)
  \/ \E a \in Att : macRejected(a)
  \/ \E a \in Att, graph \in GraphOutcomes, recOk \in BOOLEAN :
       defaultResolved(a, graph, recOk)
  \/ \E a \in Att, n \in ErrNames : defaultRejected(a, n)
  \/ \E a \in Att, graph \in GraphOutcomes, recOk \in BOOLEAN :
       contextClosed(a, graph, recOk)
  \/ \E a \in Att, ok \in BOOLEAN, n \in ErrNames, recOk \in BOOLEAN :
       contextResumed(a, ok, n, recOk)
  \/ \E a \in Att, size \in ChunkSizes : revRecorderOnDataAvailable(a, size)
  \/ \E a \in Att, throws \in BOOLEAN : revRecorderOnError(a, throws)
  \/ \E a \in Att, size \in ChunkSizes : revRecorderOnStop(a, size)
  \/ \E throws \in BOOLEAN : revStopRecording(throws)
  \/ \E v \in GainValues : adjustGain(v)
  \/ revUnmount

SpecGain == InitGain /\ [][NextGain]_vars

(***************************************************************************)
(* The upload handler: POST of src/unnamed/part_001.  Every request runs   *)
(* the handler once; the handler is suspended at its three awaits, where   *)
(* other requests run.                                                     *)
(***************************************************************************)

\* What formData.get('audio') gives: null when the form has no such part, ""
\* for an empty text field, a string for a text field, a File.
AudioParts == {"absent", "empty", "text", "file"}

\* A handler without the check of the audio part.
NoAudioNever(part) == FALSE

\* !audioBlob
NoAudio(part) == part \in {"absent", "empty"}

\* new Date().toISOString(): the clock, cut to whole milliseconds.
Millis(t) == t \div TicksPerMs

\* `audio-${timestamp}.webm`, the timestamp with ':' and '.' replaced.
Filename(ms) == <<"audio-", ms, ".webm">>

\* `/uploads/${filename}`
Url(name) == <<"/uploads/">> \o name

\* The three responses of the handler.
BadRequest == [status |-> 400, error |-> "No audio data received"]
ServerError == [status |-> 500, error |-> "Failed to process audio"]
Success(name) == [status |-> 200, success |-> TRUE, filename |-> name, url |-> Url(name)]

\* "return NextResponse.json(...)": the request is answered.
Respond(u, resp) == [u EXCEPT !.pc = "done", !.responses = Append(@, resp)]

\* The catch of the handler, entered from the step `step`.
Caught(u, step) == Respond([u EXCEPT !.threw = step], ServerError)

\* writeFile(path, buffer): the file of that name is created or replaced.
WriteFile(fs, name, content) ==
  {f \in fs : f.name # name} \cup {[name |-> name, content |-> content]}

\* A request arrives; its form holds `part` under 'audio'.
post(r, part) ==
  /\ up[r].pc = "none"
  /\ up' = [up EXCEPT ![r].pc = "formData", ![r].part = part]
  /\ UNCHANGED <<recorderVars, revVars, playVars, now, files>>

\* "await req.formData()" settles: the form cannot be parsed, or it is, and
\* the handler runs on to "await audioBlob.arrayBuffer()", a TypeError when
\* the part is a string.
formDataSettled(r, ok) ==
  /\ up[r].pc = "formData"
  /\ up' = [up EXCEPT ![r] =
        IF ~ok THEN Caught(@, "formData")
        ELSE IF NoAudio(@.part) THEN Respond(@, BadRequest)
        ELSE IF @.part = "text"
          THEN Caught([@ EXCEPT !.stamp = Millis(now)], "arrayBuffer")
          ELSE [@ EXCEPT !.stamp = Millis(now), !.pc = "arrayBuffer"]]
  /\ UNCHANGED <<recorderVars, revVars, playVars, now, files>>

\* "await audioBlob.arrayBuffer()" settles, and writeFile is called.
arrayBufferSettled(r, ok) ==
  /\ up[r].pc = "arrayBuffer"
  /\ up' = [up EXCEPT ![r] =
        IF ok THEN [@ EXCEPT !.pc = "writeFile"] ELSE Caught(@, "arrayBuffer")]
  /\ UNCHANGED <<recorderVars, revVars, playVars, now, files>>

\* "await writeFile(...)" settles: the file holds the request's content (the
\* content of request r is r), or the write failed, before the file was
\* opened or after it was truncated (content 0).
writeFileSettled(r, ok, truncated) ==
  /\ up[r].pc = "writeFile"
  /\ LET name == Filename(up[r].stamp) IN
     IF ok
       THEN /\ files' = WriteFile(files, name, r)
            /\ up' = [up EXCEPT ![r] =
                        Respond([@ EXCEPT !.written = Append(@, name)], Success(name))]
       ELSE /\ files' = IF truncated THEN WriteFile(files, name, 0) ELSE files
            /\ up' = [up EXCEPT ![r] = Caught(@, "writeFile")]
  /\ UNCHANGED <<recorderVars, revVars, playVars, now>>

\* Time passes on the server.
tick ==
  /\ now < MaxNow
  /\ now' = now + 1
  /\ UNCHANGED <<recorderVars, revVars, playVars, files, up>>

InitUpload ==
  /\ Init
  /\ isBrowserSupported = TRUE

NextUpload ==
  \/ \E r \in Req, part \in AudioParts : post(r, part)
  \/ \E r \in Req, ok \in BOOLEAN : formDataSettled(r, ok)
  \/ \E r \in Req, ok \in BOOLEAN : arrayBufferSettled(r, ok)
  \/ \E r \in Req, ok \in BOOLEAN, truncated \in BOOLEAN : writeFileSettled(r, ok, truncated)
  \/ tick

SpecUpload == InitUpload /\ [][NextUpload]_vars

(***************************************************************************)
(* Playback in the gain-slider revision: playRecording and stopPlayback of *)
(* src/unnamed/part_004 (the same code is in part_003).  SpecPlayback      *)
(* starts where one recording was made and finalized, and runs playback    *)
(* only.                                                                   *)
(***************************************************************************)

\* The request of a recording made with the default constraints, stopped and
\* finalized with one chunk.
RecordedRequest ==
  [NoRequest EXCEPT
     !.pc = "running",
     !.log = <<[kind |-> "probe", out |-> "granted"],
               [kind |-> "default", out |-> "granted"]>>,
     !.stream = "stopped", !.ctx = "closed", !.gain = DefaultGain,
     !.rec = "inactive", !.stopped = TRUE,
     !.delivered = <<1000>>, !.url = "live",
     !.blob = <<[rec |-> 1, size |-> 1000]>>]

\* The AudioContext playRecording makes when audioContextRef holds none; it
\* belongs to no request.
PlaybackContext == MaxAttempts + 1

\* What playback leaves alone.
playbackFrame == <<componentVars, uploadVars, revVars, mounted, isRecording,
                   mediaRecorderRef, nAttempts>>

\* The catch of playRecording: an alert, no state is changed.
playRecordingCatch(p) == [plays EXCEPT ![p].pc = "failed"]

\* Click on "Play Recording", rendered when audioData && !isPlaying: the
\* AudioContext is made if there is none (ctxOk: the constructor does not
\* throw) and fetch(audioData.url) is awaited.
playRecording(ctxOk) ==
  /\ mounted /\ audioData # 0 /\ ~isPlaying
  /\ nPlays < MaxPlays
  /\ nPlays' = nPlays + 1
  /\ IF audioContextRef = 0 /\ ~ctxOk
       THEN /\ plays' = playRecordingCatch(nPlays + 1)
            /\ UNCHANGED audioContextRef
       ELSE /\ plays' = [plays EXCEPT ![nPlays + 1].pc = "fetching"]
            /\ audioContextRef' = IF audioContextRef = 0 THEN PlaybackContext
                                                         ELSE audioContextRef
  /\ UNCHANGED <<playbackFrame, isPlaying, audioBufferSourceRef>>

\* "await fetch(...)" and "await response.arrayBuffer()" settle, and
\* decodeAudioData is called.
fetched(p, ok) ==
  /\ plays[p].pc = "fetching"
  /\ plays' = IF ok THEN [plays EXCEPT ![p].pc = "decoding"] ELSE playRecordingCatch(p)
  /\ UNCHANGED <<playbackFrame, isPlaying, audioContextRef, audioBufferSourceRef, nPlays>>

\* The sources after audioBufferSourceRef.current.stop(): a playing source
\* stops and its 'ended' event is queued.
StopSource(f, ref) ==
  [q \in Play |-> [f[q] EXCEPT !.src = IF q = ref /\ @ = "playing" THEN "stopped" ELSE @]]

\* "await decodeAudioData(...)" settles: the source held by
\* audioBufferSourceRef is stopped, a new source is made and started, and
\* setIsPlaying(true).
decoded(p, ok) ==
  /\ plays[p].pc = "decoding"
  /\ IF ok
       THEN /\ plays' = [StopSource(plays, audioBufferSourceRef) EXCEPT
                           ![p].pc = "done", ![p].src = "playing"]
            /\ audioBufferSourceRef' = p
            /\ isPlaying' = Set(TRUE, isPlaying)
       ELSE /\ plays' = playRecordingCatch(p)
            /\ UNCHANGED <<audioBufferSourceRef, isPlaying>>
  /\ UNCHANGED <<playbackFrame, audioContextRef, nPlays>>

\* Click on "Stop Playback", rendered when audioData && isPlaying.
stopPlayback ==
  /\ mounted /\ audioData # 0 /\ isPlaying
  /\ IF audioBufferSourceRef # 0
       THEN /\ plays' = StopSource(plays, audioBufferSourceRef)
            /\ isPlaying' = FALSE
       ELSE UNCHANGED <<plays, isPlaying>>
  /\ UNCHANGED <<playbackFrame, audioContextRef, audioBufferSourceRef, nPlays>>

\* source.onended of the source of call p: its buffer ran out, or its
\* stop() took effect.
sourceOnEnded(p) ==
  /\ plays[p].src \in {"playing", "stopped"}
  /\ plays' = [plays EXCEPT ![p].src = "ended"]
  /\ isPlaying' = Set(FALSE, isPlaying)
  /\ UNCHANGED <<playbackFrame, audioContextRef, audioBufferSourceRef, nPlays>>

\* One recording was made and finalized (a state SpecGain reaches), nothing
\* was played yet.
InitPlayback ==
  /\ UploadInit
  /\ PlaybackInit
  /\ mounted = TRUE
  /\ isBrowserSupported = TRUE
  /\ isRecording = FALSE
  /\ isPlaying = FALSE
  /\ hasRecording = FALSE
  /\ error = NoError
  /\ audioLevel = 0
  /\ recordingMode = "microphone"
  /\ mediaRecorderRef = 1
  /\ micStreamRef = 0
  /\ systemStreamRef = 0
  /\ audioContextRef = 0
  /\ analyserRef = 0
  /\ animationFrameRef = 0
  /\ chunksRef = <<>>
  /\ audioSrc = 0
  /\ audioEl = "paused"
  /\ nAttempts = 1
  /\ att = [a \in Att |-> NoAttempt]
  /\ isMac = FALSE
  /\ audioData = 1
  /\ showPermissionModal = FALSE
  /\ permissionError = NoError
  /\ gainValue = DefaultGain
  /\ gainNodeRef = 1
  /\ audioChunksRef = <<[rec |-> 1, size |-> 1000]>>
  /\ req = [a \in Att |-> IF a = 1 THEN RecordedRequest ELSE NoRequest]

NextPlayback ==
  \/ \E ctxOk \in BOOLEAN : playRecording(ctxOk)
  \/ \E p \in Play, ok \in BOOLEAN : fetched(p, ok)
  \/ \E p \in Play, ok \in BOOLEAN : decoded(p, ok)
  \/ stopPlayback
  \/ \E p \in Play : sourceOnEnded(p)

SpecPlayback == InitPlayback /\ [][NextPlayback]_vars

(***************************************************************************)
(* Properties                                                              *)
(***************************************************************************)

LiveTracks(r) == r.mic = "live" \/ r.sysAudio = "live" \/ r.sysVideo = "live"

\* The ways an attempt ends: the catch of startRecording ran, its recorder's
\* stop event was handled, or its recorder's error event was handled.
AttemptEnded(r) == r.pc = "failed" \/ r.stopped \/ r.errored

\* A capture session in progress: waiting for its stream, recording, or
\* stopped with the stop event still to come.
InProgress(r) == Pending(r) \/ r.rec = "recording" \/ r.stopEvt

RECURSIVE SumSizes(_)
SumSizes(q) == IF q = <<>> THEN 0 ELSE Head(q) + SumSizes(Tail(q))

BlobSizes(b) == [i \in 1..Len(b) |-> b[i].size]

\* C1: once a capture attempt has ended (stop event with or without chunks,
\* exception in startRecording/getAudioStream, recorder error event), no
\* track of a stream it obtained is still live.
C1_NoLiveTrackAfterEnd ==
  \A a \in Att : AttemptEnded(att[a]) => ~LiveTracks(att[a])

\* C2: isRecording and isPlaying are never both true.
C2_RecordingExcludesPlaying == ~(isRecording /\ isPlaying)

\* C3: a capture whose recorder delivered no chunk of size > 0 before its
\* stop event produces no artifact: no Blob, no object URL.
C3_ZeroChunksNoArtifact ==
  \A a \in Att :
    (att[a].stopped /\ att[a].delivered = <<>>) =>
      (att[a].url = "none" /\ att[a].blob = <<>>)

\* C4: a capture stopped after N > 0 non-empty chunks yields one artifact
\* made of exactly these chunks in delivery order, its size their sum.
C4_ArtifactIsDeliveredChunks ==
  \A a \in Att :
    (att[a].stopped /\ att[a].delivered # <<>>) =>
      /\ att[a].url # "none"
      /\ BlobSizes(att[a].blob) = att[a].delivered
      /\ SumSizes(BlobSizes(att[a].blob)) = SumSizes(att[a].delivered)

\* C5: at most one capture session is in progress at any time.
C5_AtMostOneSession ==
  Cardinality({a \in Att : InProgress(att[a])}) <= 1

\* The start attempt of mode 'system' that failed because the granted
\* display stream had no audio track.
NoSystemAudio(r) ==
  r.mode = "system" /\ r.pc = "failed" /\ r.sysVideo # "none" /\ r.sysAudio = "none"

C6_Released ==
  \A a \in Att :
    NoSystemAudio(att[a]) =>
      /\ ~LiveTracks(att[a])
      /\ att[a].rec = "none"
      /\ att[a].url = "none"

C6_Reported ==
  \A a \in Att :
    (mounted /\ att[a].pc = "awaitDisplay" /\ NoSystemAudio(att[a])') =>
      (error' = MsgSysNoAudio /\ ~isRecording')

\* C6: in mode 'system', a granted screen share without an audio track ends
\* the start attempt with the no-system-audio message, isRecording false, no
\* MediaRecorder, no artifact, and every track of the display stream (the
\* video track too) stopped.
C6_NoSystemAudioEndsClean == []C6_Released /\ [][C6_Reported]_vars

C6_Witness ==
  \E a \in Att :
    /\ NoSystemAudio(att[a])
    /\ att[a].sysVideo = "stopped"
    /\ mounted /\ error = MsgSysNoAudio /\ ~isRecording

\* C7: in mode 'both' a refused microphone means getDisplayMedia was never
\* invoked and no stream is active; a granted microphone followed by a
\* refused display request, or one without audio track, has its tracks
\* stopped.
C7_BothShortCircuits ==
  \A a \in Att :
    (att[a].mode = "both" /\ att[a].pc = "failed") =>
      /\ att[a].mic = "none" => (~att[a].dispReq /\ ~LiveTracks(att[a]))
      /\ (att[a].mic # "none" /\ att[a].sysAudio = "none") => ~LiveTracks(att[a])

\* C8: whenever an error message is stored the component is idle:
\* isRecording is false.
C8_ErrorMeansIdle == (mounted /\ error # NoError) => ~isRecording

\* C9: a recorder that had an error event never yields an artifact, also not
\* when its stop event is delivered afterwards.
C9_PartialDataDiscarded ==
  \A a \in Att : att[a].errored => (att[a].url = "none" /\ att[a].blob = <<>>)

\* C10: a stream request in flight when the attempt was abandoned (teardown
\* or stop) is ignored when it resolves: no recorder, no live track.
C10_AbandonedRequestIgnored ==
  \A a \in Att : att[a].abandoned => (att[a].rec = "none" /\ ~LiveTracks(att[a]))

\* A track that had stop() invoked on it more than once.
StoppedTwice(r) ==
  r.mic = "restopped" \/ r.sysAudio = "restopped" \/ r.sysVideo = "restopped"

\* C11: every input track the component acquired has stop() invoked on it
\* exactly once over the component's lifetime: never a second time, and
\* once the component is unmounted and the attempt no longer waits for a
\* stream, no track of it is left live.
C11_TracksStoppedExactlyOnce ==
  \A a \in Att :
    /\ ~StoppedTwice(att[a])
    /\ (~mounted /\ ~Pending(att[a])) => ~LiveTracks(att[a])

\* C12: when a session is back in idle after its stop event, the
\* AudioContext built for it is closed; and over start/stop cycles (sessions
\* that do not overlap) at most one AudioContext the component created is
\* open at a time.
C12_ContextReleasedOnIdle ==
  /\ \A a \in Att : att[a].stopped => att[a].ctx # "open"
  /\ Cardinality({a \in Att : InProgress(att[a])}) <= 1 =>
       Cardinality({a \in Att : att[a].ctx = "open"}) <= 1

\* C13: after teardown no native handle of the component is live: no live
\* track, no open AudioContext, no active recorder, no un-revoked object
\* URL, whatever the state it was torn down in and whatever arrives later.
C13_NoLiveHandleAfterTeardown ==
  ~mounted =>
    \A a \in Att :
      /\ ~LiveTracks(att[a])
      /\ att[a].ctx # "open"
      /\ att[a].rec # "recording"
      /\ att[a].url # "live"

\* The stop event of a recorder that stopRecording stopped is handled.
StopFinalized(a) ==
  mounted /\ att[a].stopEvt /\ ~att[a].errored /\ ~att'[a].stopEvt

\* C14: the stop event that follows stopRecording takes the component to
\* idle (isRecording false, audioLevel 0, no animation frame pending) with
\* exactly one of a new artifact and error = null, when a chunk was
\* delivered, or an error message.
C14_StopFinalizes ==
  [][\A a \in Att :
       StopFinalized(a) =>
         /\ ~isRecording' /\ audioLevel' = 0 /\ animationFrameRef' = 0
         /\ IF att'[a].delivered # <<>>
              THEN att'[a].url = "live" /\ error' = NoError
              ELSE att'[a].url = "none" /\ error' # NoError]_vars

\* C15: from the call of startRecording until the session is back in idle,
\* recordingMode keeps the value the session started with.
C15_ModeFixedDuringSession ==
  \A a \in Att : (mounted /\ InProgress(att[a])) => recordingMode = att[a].mode

\* C16: the object URL of an artifact is revoked when a new recording
\* starts and when the component is torn down, and at most one un-revoked
\* artifact URL exists.
C16_ArtifactUrlReleased ==
  /\ \A a, b \in Att : (a < b /\ att[b].pc # "none") => att[a].url # "live"
  /\ ~mounted => \A a \in Att : att[a].url # "live"
  /\ Cardinality({a \in Att : att[a].url = "live"}) <= 1

\* C20: once the 'start' event of a capture was handled and while its
\* recorder records, level-meter polling runs: a tick is scheduled.
C20_PollingRunsWhileRecording ==
  \A a \in Att :
    (mounted /\ att[a].rec = "recording" /\ ~att[a].startEvt /\ analyserRef = a)
      => animationFrameRef # 0

\* Both level formulas stay between 0 and 100 on every analyser buffer.
LevelsInRange ==
  \A buf \in AnalyserBuffers : Level(buf) \in 0..100 /\ MeanLevel(buf) \in 0..100

\* C21: audioLevel is within 0..100 in every reachable state; on every
\* analyser buffer of bytes the root-mean-square formula (scaled by 128,
\* clamped to 100) and the mean formula (scaled by 255) give a level in
\* 0..100; and the level is 0 initially and whenever no session is in
\* progress, so after a session ended by stop or by error.
C21_LevelInRange ==
  /\ audioLevel \in 0..100
  /\ LevelsInRange
  /\ (\A a \in Att : ~InProgress(att[a])) => audioLevel = 0

\* One session ended by its stop event with an artifact, another by a
\* recorder error, and the level is 0.
C21_Witness ==
  /\ mounted /\ audioLevel = 0
  /\ \A a \in Att : ~InProgress(att[a])
  /\ \E a \in Att : att[a].stopped /\ ~att[a].errored /\ att[a].url = "live"
  /\ \E a \in Att : att[a].stopped /\ att[a].errored

\* C22: in every mode a refused permission (NotAllowedError) is shown as
\* guidance for that mode, never as the platform's raw error text.
C22_RefusalShowsGuidance == mounted => error # "NotAllowedError"

\* C23: playback state resets on every way playback can end: whenever the
\* element stops playing (the 'ended' event, stopAudio, a playback error, or
\* anything else that ends it), isPlaying is false afterwards; playAudio
\* without an artifact sets 'No recording available to play' and does not
\* start playing; isPlaying becomes true only when the pending play() was
\* confirmed by the platform.
C23_PlaybackStateResets ==
  [][/\ (mounted' /\ audioEl = "playing" /\ audioEl' # "playing") => ~isPlaying'
     /\ (error' = MsgNoRecording /\ error # MsgNoRecording) =>
          (~isPlaying' /\ audioEl' = audioEl)
     /\ (~isPlaying /\ isPlaying') => (audioEl = "pending" /\ audioEl' = "playing")]_vars

\* C25: the artifact of a recorder's stop event holds exactly the chunks this
\* recorder delivered: none cleared by a later startRecording, none of
\* another session mixed in; and the cleanup of a recorder's stop event
\* does not stop the live tracks of another session that is in progress.
C25_ChunksIsolatedPerSession ==
  /\ [](\A a \in Att :
          att[a].stopped =>
            /\ BlobSizes(att[a].blob) = att[a].delivered
            /\ \A i \in 1..Len(att[a].blob) : att[a].blob[i].rec = a)
  /\ [][\A a, b \in Att :
          (a # b /\ att[a].stopEvt /\ ~att'[a].stopEvt
             /\ InProgress(att[b]) /\ LiveTracks(att[b])) => LiveTracks(att'[b])]_vars

(***************************************************************************)
(* Properties of the gain-slider revision (SpecGain)                       *)
(***************************************************************************)

\* adjustGain is the one handler that changes gainValue.
AdjustGainStep == gainValue' # gainValue

\* No AudioContext, graph node or MediaRecorder is made or replaced.
NothingCreated ==
  /\ UNCHANGED <<audioContextRef, gainNodeRef, mediaRecorderRef>>
  /\ \A a \in Att :
       /\ req'[a].ctx = req[a].ctx
       /\ req'[a].rec = req[a].rec
       /\ (req'[a].gain = 0) = (req[a].gain = 0)

C17_SliderEnabledWhileRecording ==
  \A a \in Att : (mounted /\ isRecording /\ req[a].rec = "recording") => ~SliderDisabled

C17_AdjustSetsLiveGain ==
  AdjustGainStep =>
    /\ gainNodeRef # 0 => req'[gainNodeRef].gain = gainValue'
    /\ NothingCreated

OwnSizes(b, a) ==
  LET own == SelectSeq(b, LAMBDA c : c.rec = a)
  IN [i \in 1..Len(own) |-> own[i].size]

C18_ChunksReachArtifact ==
  \A a \in Att :
    (req[a].stopped /\ req[a].adjusted) => OwnSizes(req[a].blob, a) = req[a].delivered

C18_Frame ==
  AdjustGainStep =>
    /\ UNCHANGED <<audioChunksRef, mediaRecorderRef, isRecording, isPlaying, audioData,
                   permissionError, showPermissionModal>>
    /\ \A a \in Att :
         /\ req'[a].rec = req[a].rec /\ req'[a].stopEvt = req[a].stopEvt
         /\ req'[a].delivered = req[a].delivered /\ req'[a].blob = req[a].blob

\* C18: adjustGain changes only gainValue and the gain node's value (chunks,
\* recorder, isRecording, isPlaying, artifact, error and modal flag stay),
\* and the chunks a recorder delivered before and after an adjustment are
\* all in its artifact.
C18_AdjustGainChangesOnlyGain == []C18_ChunksReachArtifact /\ [][C18_Frame]_vars

\* Request i of the log was rejected.
Rejected(r, i) == r.log[i].out = "rejected"

C19_RejectionEndsRequests ==
  \A a \in Att : \A i \in 1..Len(req[a].log) :
    Rejected(req[a], i) => (i = Len(req[a].log) /\ req[a].pc = "failed")

\* A rejection takes the call of requestPermission to its catch.
RejectionCaught(a) ==
  /\ req[a].pc # "failed" /\ req'[a].pc = "failed"
  /\ Rejected(req'[a], Len(req'[a].log))

C19_RejectionShown ==
  \A a \in Att :
    (mounted /\ RejectionCaught(a)) =>
      (permissionError' # NoError /\ showPermissionModal')

\* C19 as stated: within one call, once a stream request was rejected no
\* further stream request is issued; the rejection ends the call and is
\* shown as the error.
C19_NoAutomaticRetry == []C19_RejectionEndsRequests /\ [][C19_RejectionShown]_vars

C19_OneFallbackOnly ==
  \A a \in Att : \A i \in 1..Len(req[a].log) :
    Rejected(req[a], i) =>
      IF req[a].log[i].kind = "mac"
        THEN /\ Len(req[a].log) = i + 1
             /\ req[a].log[i + 1].kind = "default"
        ELSE i = Len(req[a].log) /\ req[a].pc = "failed"

\* C19 amended: a rejected probe or default-constraints request ends the
\* call of requestPermission, no further request is issued and the failure
\* is shown as the error; a rejected request with the Mac constraints is
\* followed by exactly one request, with the default constraints.
C19_RetryOnlyAfterMacConstraints ==
  []C19_OneFallbackOnly /\ [][C19_RejectionShown]_vars

C19_Witness ==
  \E a \in Att :
    /\ Len(req[a].log) = 3
    /\ req[a].log[2].kind = "mac" /\ Rejected(req[a], 2)
    /\ req[a].log[3].kind = "default" /\ Rejected(req[a], 3)
    /\ req[a].pc = "failed"
    /\ mounted /\ permissionError # NoError /\ showPermissionModal

\* C26: a request whose setup failed after its microphone stream was acquired
\* (no WebAudio, no supported format, MediaRecorder construction throwing,
\* resume failing) ends with the stream's tracks stopped and the
\* AudioContext made for it closed.
C26_FailedSetupReleases ==
  \A a \in Att :
    req[a].pc = "failed" => (req[a].stream # "live" /\ req[a].ctx # "open")

\* C27: a MediaRecorder error event takes the component out of the recording
\* state: whenever a recorder becomes inactive, by Stop or by an error,
\* isRecording is false afterwards; and while the Stop button shows, the
\* recorder it would stop is active.
C27_RecorderErrorEndsRecording ==
  /\ [][\A a \in Att :
          (mounted /\ req[a].rec = "recording" /\ req'[a].rec = "inactive")
            => ~isRecording']_vars
  /\ []((mounted /\ isRecording /\ mediaRecorderRef # 0)
          => req[mediaRecorderRef].rec = "recording")

\* C30: while a capture session has a gain stage, its multiplier is the
\* value the slider shows.
C30_GainStageShowsSlider ==
  \A a \in Att :
    (mounted /\ req[a].gain # 0 /\ req[a].rec = "recording") => req[a].gain = gainValue

(***************************************************************************)
(* Properties of the upload handler (SpecUpload)                           *)
(***************************************************************************)

\* The request was answered with status 200.
Succeeded(u) == u.pc = "done" /\ u.responses[1].status = 200

\* C24: every request gets exactly one response and no exception escapes: a
\* failure while parsing the form, reading the audio part or writing the
\* file gives 500 'Failed to process audio'; a form without audio data
\* gives 400 'No audio data received' and writes no file; otherwise exactly
\* one file audio-<timestamp>.webm is written and the response carries
\* success = true, that filename and url = '/uploads/' + filename.
C24_OneResponsePerRequest ==
  \A r \in Req :
    LET u == up[r] IN
    /\ u.pc \in {"none", "formData", "arrayBuffer", "writeFile", "done"}
    /\ Len(u.responses) = (IF u.pc = "done" THEN 1 ELSE 0)
    /\ u.pc # "done" => u.written = <<>>
    /\ u.pc = "done" =>
         LET resp == u.responses[1] IN
         CASE u.threw # "none" -> resp = ServerError
           [] u.threw = "none" /\ u.part \in {"absent", "empty"} ->
                resp = BadRequest /\ u.written = <<>>
           [] OTHER ->
                /\ u.written = <<Filename(u.stamp)>>
                /\ resp.status = 200 /\ resp.success
                /\ resp.filename = Filename(u.stamp)
                /\ resp.url = <<"/uploads/">> \o resp.filename
                /\ \E f \in files : f.name = resp.filename

\* One request was refused for its missing audio, one failed and one was
\* stored.
C24_Witness ==
  \E r, q, t \in Req :
    /\ Succeeded(up[r])
    /\ up[q].pc = "done" /\ up[q].responses[1].status = 400
    /\ up[t].pc = "done" /\ up[t].responses[1].status = 500

\* C28: any two successful requests have different filenames, and the url
\* returned to a request keeps referring to that request's content.
C28_UniqueFilenames ==
  /\ \A r, q \in Req :
       (r # q /\ Succeeded(up[r]) /\ Succeeded(up[q]))
         => up[r].responses[1].filename # up[q].responses[1].filename
  /\ \A r \in Req :
       Succeeded(up[r]) =>
         \E f \in files : f.name = up[r].responses[1].filename /\ f.content = r

(***************************************************************************)
(* Properties of the gain-slider revision's playback (SpecPlayback)        *)
(***************************************************************************)

\* The buffer sources that play.
Playing == {p \in Play : plays[p].src = "playing"}

\* At most one buffer source plays (this half of C29 holds).
AtMostOneSourcePlays == Cardinality(Playing) <= 1

\* C29: over every interleaving of overlapping playRecording calls,
\* stopPlayback and 'ended' events, at most one buffer source plays, and
\* isPlaying is true whenever a source started by playRecording plays.
C29_OnePlaybackTracked ==
  /\ AtMostOneSourcePlays
  /\ (mounted /\ Playing # {}) => isPlaying

====
